---- MODULE Spec2Model ----
(***************************************************************************)
(* Card matching and resolution engine of tcg-list-extra-info.             *)
(*                                                                         *)
(* Python strings are modelled as sequences of one-character strings, so   *)
(* that lower(), replace(), split(), lstrip() and the regular expressions  *)
(* of the source are computed character by character.                      *)
(***************************************************************************)
EXTENDS Integers, Sequences, FiniteSets, TLC

\* ------------------------------------------------------------------------
\* Python values
\* ------------------------------------------------------------------------

\* Python's None, where the value is a product, a data entry or a result dict.
None == [py_none |-> TRUE]

\* Python's None, where the value is a string: no string holds this element.
NoneStr == << "None" >>

\* Python's None in the place of a group id (group ids are integers).
NoneGid == -1

\* Truthiness of a group id: "if gid:" / "if not group_id:".
Truthy(gid) == gid # NoneGid /\ gid # 0

\* ------------------------------------------------------------------------
\* Characters
\* ------------------------------------------------------------------------

UpperAlpha ==
  <<"A","B","C","D","E","F","G","H","I","J","K","L","M",
    "N","O","P","Q","R","S","T","U","V","W","X","Y","Z">>

LowerAlpha ==
  <<"a","b","c","d","e","f","g","h","i","j","k","l","m",
    "n","o","p","q","r","s","t","u","v","w","x","y","z">>

Digits == {"0","1","2","3","4","5","6","7","8","9"}

RangeOf(s) == { s[i] : i \in 1..Len(s) }

\* Code point U+0301 (combining acute accent), Unicode category Mn.
CombiningAcute == "U+0301"

UpperLetters == RangeOf(UpperAlpha)
LowerLetters == RangeOf(LowerAlpha)

\* The characters str.lower() changes, with their lower-case forms.
ToLower ==
  [c \in UpperLetters \cup {"É"} |->
     IF c = "É" THEN "é"
     ELSE LowerAlpha[CHOOSE i \in 1..Len(UpperAlpha) : UpperAlpha[i] = c]]

\* The characters str.upper() changes, with their upper-case forms.
ToUpper ==
  [c \in LowerLetters \cup {"é"} |->
     IF c = "é" THEN "É"
     ELSE UpperAlpha[CHOOSE i \in 1..Len(LowerAlpha) : LowerAlpha[i] = c]]

\* str.lower() on one character.
LowerChar(c) == IF c \in DOMAIN ToLower THEN ToLower[c] ELSE c

\* str.upper() on one character.
UpperChar(c) == IF c \in DOMAIN ToUpper THEN ToUpper[c] ELSE c

\* The regular expression class \s and str.split()/str.strip() whitespace.
IsSpace(c) == c = " " \/ c = "\t"

\* The regular expression class \w (used by \b).
WordChars == LowerLetters \cup UpperLetters \cup Digits \cup {"_", "é", "É"}

IsWordChar(c) == c \in WordChars

\* The regular expression class [a-z0-9].
LowerAlnum == LowerLetters \cup Digits

\* unicodedata.category(ch) == "Mn"
IsMn(c) == c = CombiningAcute

\* unicodedata.normalize("NFD", ch) on one character.
NFDChar(c) ==
  IF c = "é" THEN <<"e", CombiningAcute>>
  ELSE IF c = "É" THEN <<"E", CombiningAcute>>
  ELSE <<c>>

\* ------------------------------------------------------------------------
\* Strings
\* ------------------------------------------------------------------------

\* str.lower()
Lower(s) == [i \in 1..Len(s) |-> LowerChar(s[i])]

\* "a in b" for strings
Contains(b, a) ==
  \E i \in 0..(Len(b) - Len(a)) : SubSeq(b, i + 1, i + Len(a)) = a

\* b.startswith(a)
StartsWith(b, a) == Len(a) <= Len(b) /\ SubSeq(b, 1, Len(a)) = a

\* s.replace(old, new), old non-empty: leftmost non-overlapping occurrences.
RECURSIVE Replace(_, _, _)
Replace(s, old, new) ==
  IF Len(s) < Len(old) THEN s
  ELSE IF SubSeq(s, 1, Len(old)) = old
    THEN new \o Replace(SubSeq(s, Len(old) + 1, Len(s)), old, new)
    ELSE <<s[1]>> \o Replace(Tail(s), old, new)

\* s.strip("0") in place of s.lstrip("0"): zeros are removed at both ends.
RECURSIVE LStripZeros_BothEnds(_)
LStripZeros_BothEnds(s) ==
  IF s # <<>> /\ s[1] = "0" THEN LStripZeros_BothEnds(Tail(s))
  ELSE IF s # <<>> /\ s[Len(s)] = "0" THEN LStripZeros_BothEnds(SubSeq(s, 1, Len(s) - 1))
  ELSE s

\* s.lstrip("0")
RECURSIVE LStripZeros(_)
LStripZeros(s) ==
  IF s # <<>> /\ s[1] = "0" THEN LStripZeros(Tail(s)) ELSE s

\* s.split("/")[0]
RECURSIVE BeforeSlash(_)
BeforeSlash(s) ==
  IF s = <<>> \/ s[1] = "/" THEN <<>>
  ELSE <<s[1]>> \o BeforeSlash(Tail(s))

\* s.split(): the maximal runs of non-whitespace characters.
RECURSIVE SplitWords(_, _)
SplitWords(s, cur) ==
  IF s = <<>> THEN (IF cur = <<>> THEN <<>> ELSE <<cur>>)
  ELSE IF IsSpace(s[1])
    THEN (IF cur = <<>> THEN <<>> ELSE <<cur>>) \o SplitWords(Tail(s), <<>>)
    ELSE SplitWords(Tail(s), Append(cur, s[1]))

Split(s) == SplitWords(s, <<>>)

\* Concatenation of a sequence of strings.
RECURSIVE Concat(_)
Concat(ss) == IF ss = <<>> THEN <<>> ELSE ss[1] \o Concat(Tail(ss))

\* ------------------------------------------------------------------------
\* Text helpers (card_matcher.py)
\* ------------------------------------------------------------------------

\* unicodedata.normalize("NFD", text)
RECURSIVE NFD(_)
NFD(s) == IF s = <<>> THEN <<>> ELSE NFDChar(s[1]) \o NFD(Tail(s))

\* "".join(ch for ch in text if unicodedata.category(ch) != "Mn")
RECURSIVE DropMn(_)
DropMn(s) ==
  IF s = <<>> THEN <<>>
  ELSE (IF IsMn(s[1]) THEN <<>> ELSE <<s[1]>>) \o DropMn(Tail(s))

\* re.sub(r"[^a-z0-9\s]", "", text)
RECURSIVE DropNonAlnum(_)
DropNonAlnum(s) ==
  IF s = <<>> THEN <<>>
  ELSE (IF s[1] \in LowerAlnum \/ IsSpace(s[1])
          THEN <<s[1]>> ELSE <<>>) \o DropNonAlnum(Tail(s))

\* re.sub(r"\s+", " ", text)
RECURSIVE CollapseSpaces(_)
CollapseSpaces(s) ==
  IF s = <<>> THEN <<>>
  ELSE IF IsSpace(s[1])
    THEN IF Len(s) > 1 /\ IsSpace(s[2])
           THEN CollapseSpaces(Tail(s))
           ELSE <<" ">> \o CollapseSpaces(Tail(s))
    ELSE <<s[1]>> \o CollapseSpaces(Tail(s))

\* text.strip()
RECURSIVE Strip(_)
Strip(s) ==
  IF s = <<>> THEN <<>>
  ELSE IF IsSpace(s[1]) THEN Strip(Tail(s))
  ELSE IF IsSpace(s[Len(s)]) THEN Strip(SubSeq(s, 1, Len(s) - 1))
  ELSE s

\* strip() applied first instead of last.
normalize_text_StripFirst(text) ==
  CollapseSpaces(DropNonAlnum(DropMn(NFD(Lower(Strip(text))))))

normalize_text(text) ==
  Strip(CollapseSpaces(DropNonAlnum(DropMn(NFD(Lower(text))))))

\* re.search(r"\b" + word + r"\b", text): word starts and ends with a word
\* character, so \b holds where the neighbour is missing or is not one.
WordSearch(text, word) ==
  \E i \in 0..(Len(text) - Len(word)) :
    /\ SubSeq(text, i + 1, i + Len(word)) = word
    /\ (i = 0 \/ ~IsWordChar(text[i]))
    /\ (i + Len(word) = Len(text) \/ ~IsWordChar(text[i + Len(word) + 1]))

Suffixes ==
  << <<"v","m","a","x">>, <<"v","s","t","a","r">>, <<"e","x">>,
     <<"g","x">>, <<"v">> >>

extract_card_suffixes(text) ==
  LET text_lower == Lower(text)
  IN { Suffixes[k] : k \in { j \in 1..Len(Suffixes) : WordSearch(text_lower, Suffixes[j]) } }

\* ------------------------------------------------------------------------
\* Product index (card_matcher.py)
\* ------------------------------------------------------------------------

\* A product is [productId, name, cleanName, imageUrl, extendedData], with
\* extendedData a sequence of [name, value]; value is a string or NoneStr.

\* The first extendedData entry named "Number", or None.
RECURSIVE FirstNumberEntry(_)
FirstNumberEntry(extendedData) ==
  IF extendedData = <<>> THEN None
  ELSE IF extendedData[1].name = "Number" THEN extendedData[1]
  ELSE FirstNumberEntry(Tail(extendedData))

\* num = value; if "/" in num: num = num.split("/")[0]; num.lstrip("0") or "0"
ProductNumberKey(value) ==
  LET num == IF Contains(value, <<"/">>) THEN BeforeSlash(value) ELSE value
      stripped == LStripZeros(num)
  IN IF stripped = <<>> THEN <<"0">> ELSE stripped

\* card_info["number"].lstrip("0") or "0"
CardNumberKey(number) ==
  LET stripped == LStripZeros(number)
  IN IF stripped = <<>> THEN <<"0">> ELSE stripped

\* index.get(key, [])
IndexGet(index, key) == IF key \in DOMAIN index THEN index[key] ELSE <<>>

\* The product is put in front of the list instead of at its end.
IndexAppend_Prepend(index, num, product) ==
  IF num \in DOMAIN index
    THEN [index EXCEPT ![num] = <<product>> \o @]
    ELSE [k \in DOMAIN index \cup {num} |->
            IF k = num THEN <<product>> ELSE index[k]]

\* index.setdefault(num, []).append(product)
IndexAppend(index, num, product) ==
  IF num \in DOMAIN index
    THEN [index EXCEPT ![num] = Append(@, product)]
    ELSE [k \in DOMAIN index \cup {num} |->
            IF k = num THEN <<product>> ELSE index[k]]

\* '"/" in num' raises TypeError when the "Number" value is None.
BuildRaises(products) ==
  \E i \in 1..Len(products) :
    LET e == FirstNumberEntry(products[i].extendedData)
    IN e # None /\ e.value = NoneStr

RECURSIVE BuildFrom(_, _)
BuildFrom(products, index) ==
  IF products = <<>> THEN index
  ELSE LET e == FirstNumberEntry(products[1].extendedData)
       IN IF e = None
            THEN BuildFrom(Tail(products), index)
            ELSE BuildFrom(Tail(products),
                           IndexAppend(index, ProductNumberKey(e.value), products[1]))

build_products_index(products) == BuildFrom(products, <<>>)

\* filter(None, [product.get("cleanName"), product.get("name")])
ProductNames(product) ==
  LET keep(n) == IF n = NoneStr \/ n = <<>> THEN <<>> ELSE <<n>>
  IN keep(product.cleanName) \o keep(product.name)

\* The suffix comparison of line 65 left out.
NameAccepted_IgnoringSuffixes(pname, norm_name, card_sfx) ==
  LET pnorm == normalize_text(pname)
  IN Contains(pnorm, norm_name) \/ Contains(norm_name, pnorm)

\* Whether one product name is accepted for the card (lines 65-68).
NameAccepted(pname, norm_name, card_sfx) ==
  /\ extract_card_suffixes(pname) = card_sfx
  /\ LET pnorm == normalize_text(pname)
     IN Contains(pnorm, norm_name) \/ Contains(norm_name, pnorm)

RECURSIVE MatchFrom(_, _, _)
MatchFrom(candidates, norm_name, card_sfx) ==
  IF candidates = <<>> THEN None
  ELSE LET names == ProductNames(candidates[1])
       IN IF \E k \in 1..Len(names) : NameAccepted(names[k], norm_name, card_sfx)
            THEN candidates[1]
            ELSE MatchFrom(Tail(candidates), norm_name, card_sfx)

match_card_to_product(card_info, products_index) ==
  MatchFrom(IndexGet(products_index, CardNumberKey(card_info.number)),
            normalize_text(card_info.name),
            extract_card_suffixes(card_info.name))

\* "https://mytcgcollection.com"
BaseOrigin ==
  <<"h","t","t","p","s",":","/","/","m","y","t","c","g","c","o","l","l","e","c","t","i","o","n",".","c","o","m">>

\* ext = {d.get("name"): d.get("value") for d in extendedData}; ext.get(key, "")
RECURSIVE ExtGet(_, _)
ExtGet(extendedData, key) ==
  IF extendedData = <<>> THEN <<>>
  ELSE IF extendedData[Len(extendedData)].name = key
    THEN extendedData[Len(extendedData)].value
    ELSE ExtGet(SubSeq(extendedData, 1, Len(extendedData) - 1), key)

extract_result(product, group_name, set_name, card_info) ==
  [ name       |-> product.name,
    image_url  |-> product.imageUrl,
    rarity     |-> ExtGet(product.extendedData, "Rarity"),
    group_name |-> group_name,
    set_name   |-> set_name,
    card_url   |-> IF card_info.url # <<>> THEN BaseOrigin \o card_info.url ELSE <<>> ]

\* ------------------------------------------------------------------------
\* Group resolution helpers (card_matcher.py)
\* ------------------------------------------------------------------------

\* all_groups is the dict name -> groupId in iteration (insertion) order: a
\* sequence of [name, gid] with pairwise different names.

Accended == <<"A","c","c","e","n","d","e","d">>
Ascended == <<"A","s","c","e","n","d","e","d">>

fix_set_name(set_name) ==
  IF Contains(set_name, Accended)
    THEN Replace(set_name, Accended, Ascended)
    ELSE set_name

\* all_groups.get(name)
GroupsGet(all_groups, name) ==
  IF \E i \in 1..Len(all_groups) : all_groups[i].name = name
    THEN all_groups[CHOOSE i \in 1..Len(all_groups) : all_groups[i].name = name].gid
    ELSE NoneGid

\* Only "name.lower() in lower" is tested: a group whose name contains the
\* label is passed over.
RECURSIVE FuzzyLoop_OneDirection(_, _, _)
FuzzyLoop_OneDirection(all_groups, lower, i) ==
  IF i > Len(all_groups) THEN 0
  ELSE IF Contains(lower, Lower(all_groups[i].name)) THEN i
  ELSE FuzzyLoop_OneDirection(all_groups, lower, i + 1)

\* for name, gid in all_groups.items():
\*     if lower in name.lower() or name.lower() in lower: return gid
\* The position of the group returned, 0 when the loop ends without one.
RECURSIVE FuzzyLoop(_, _, _)
FuzzyLoop(all_groups, lower, i) ==
  IF i > Len(all_groups) THEN 0
  ELSE LET nl == Lower(all_groups[i].name)
       IN IF Contains(nl, lower) \/ Contains(lower, nl) THEN i
          ELSE FuzzyLoop(all_groups, lower, i + 1)

\* for name, gid in all_groups.items():
\*     if vlow in nl or nl in vlow or nl.startswith(vlow): return gid
RECURSIVE VariantFuzzyLoop(_, _, _)
VariantFuzzyLoop(all_groups, vlow, i) ==
  IF i > Len(all_groups) THEN 0
  ELSE LET nl == Lower(all_groups[i].name)
       IN IF Contains(nl, vlow) \/ Contains(vlow, nl) \/ StartsWith(nl, vlow) THEN i
          ELSE VariantFuzzyLoop(all_groups, vlow, i + 1)

\* "".join(w[0].upper() for w in words if w)
RECURSIVE Initials(_)
Initials(words) ==
  IF words = <<>> THEN <<>>
  ELSE (IF words[1] # <<>> THEN <<UpperChar(words[1][1])>> ELSE <<>>)
       \o Initials(Tail(words))

\* set_name.replace("& ", "").replace("&", "")
NoAmpersand(set_name) == Replace(Replace(set_name, <<"&", " ">>, <<>>), <<"&">>, <<>>)

\* set_name.replace("&", "and")
AndForm(set_name) == Replace(set_name, <<"&">>, <<"a","n","d">>)

\* set_name.replace("&", "").split()
AmpersandWords(set_name) == Split(Replace(set_name, <<"&">>, <<>>))

\* The list "variants" of _find_group_id.
GroupVariants(set_name) ==
  << NoAmpersand(set_name), AndForm(set_name) >>
  \o (IF AmpersandWords(set_name) # <<>>
        THEN << Initials(AmpersandWords(set_name)) >> ELSE <<>>)

\* for variant in variants: exact lookup, then the fuzzy loop.
RECURSIVE VariantLoop(_, _)
VariantLoop(all_groups, variants) ==
  IF variants = <<>> THEN NoneGid
  ELSE LET gid == GroupsGet(all_groups, variants[1])
           hit == VariantFuzzyLoop(all_groups, Lower(variants[1]), 1)
       IN IF Truthy(gid) THEN gid
          ELSE IF hit # 0 THEN all_groups[hit].gid
          ELSE VariantLoop(all_groups, Tail(variants))

\* The fuzzy loop run before the exact lookup.
find_group_id_FuzzyFirst(set_name, all_groups) ==
  LET gid == GroupsGet(all_groups, set_name)
      hit == FuzzyLoop(all_groups, Lower(set_name), 1)
  IN IF hit # 0 THEN all_groups[hit].gid
     ELSE IF Truthy(gid) THEN gid
     ELSE IF ~Contains(set_name, <<"&">>) THEN NoneGid
     ELSE VariantLoop(all_groups, GroupVariants(set_name))

find_group_id(set_name, all_groups) ==
  LET gid == GroupsGet(all_groups, set_name)
      hit == FuzzyLoop(all_groups, Lower(set_name), 1)
  IN IF Truthy(gid) THEN gid
     ELSE IF hit # 0 THEN all_groups[hit].gid
     ELSE IF ~Contains(set_name, <<"&">>) THEN NoneGid
     ELSE VariantLoop(all_groups, GroupVariants(set_name))

\* ------------------------------------------------------------------------
\* The catalog served by the external API, and the scraped cards
\* ------------------------------------------------------------------------

\* "Base Set"
Str_BaseSet == <<"B","a","s","e"," ","S","e","t">>

\* "Base Set 2"
Str_BaseSet2 == <<"B","a","s","e"," ","S","e","t"," ","2">>

\* "Ascended Heroes"
Str_AscendedHeroes == <<"A","s","c","e","n","d","e","d"," ","H","e","r","o","e","s">>

\* "Jungle"
Str_Jungle == <<"J","u","n","g","l","e">>

\* "SM Promos"
Str_SMPromos == <<"S","M"," ","P","r","o","m","o","s">>

\* "SWSH Promos"
Str_SWSHPromos == <<"S","W","S","H"," ","P","r","o","m","o","s">>

\* "Base Set Shadowless"
Str_BaseSetShadowless ==
  <<"B","a","s","e"," ","S","e","t"," ","S","h","a","d","o","w","l","e","s","s">>

\* "Accended Heroes"
Str_AccendedHeroes == <<"A","c","c","e","n","d","e","d"," ","H","e","r","o","e","s">>

\* "Black Star Promos"
Str_BlackStarPromos == <<"B","l","a","c","k"," ","S","t","a","r"," ","P","r","o","m","o","s">>

\* "Unknown"
Str_Unknown == <<"U","n","k","n","o","w","n">>

\* "Charizard"
Str_Charizard == <<"C","h","a","r","i","z","a","r","d">>

\* "Pikachu"
Str_Pikachu == <<"P","i","k","a","c","h","u">>

\* "Pikachu ex"
Str_PikachuEx == <<"P","i","k","a","c","h","u"," ","e","x">>

\* "Scyther"
Str_Scyther == <<"S","c","y","t","h","e","r">>

\* "Mew"
Str_Mew == <<"M","e","w">>

\* "Holo Rare"
Str_HoloRare == <<"H","o","l","o"," ","R","a","r","e">>

\* "Common"
Str_Common == <<"C","o","m","m","o","n">>

\* "promo"
Str_Promo == <<"p","r","o","m","o">>

Product(id, name, number, rarity) ==
  [ productId |-> id, name |-> name, cleanName |-> name, imageUrl |-> id,
    extendedData |-> << [name |-> "Number", value |-> number],
                        [name |-> "Rarity", value |-> rarity] >> ]

\* all_groups = tcgcsv_service.get_groups(): the groups table, in insertion
\* order; read-only during the request.
all_groups ==
  << [name |-> Str_BaseSet,        gid |-> 1],
     [name |-> Str_BaseSet2,       gid |-> 2],
     [name |-> Str_AscendedHeroes, gid |-> 3],
     [name |-> Str_Jungle,         gid |-> 4],
     [name |-> Str_SMPromos,       gid |-> 5],
     [name |-> Str_SWSHPromos,     gid |-> 6],
     [name |-> Str_BaseSetShadowless, gid |-> 7] >>

GroupIds == { all_groups[i].gid : i \in 1..Len(all_groups) }

\* What the catalog holds for each group. The product of group 4 carries a
\* null "Number" value (a malformed product).
CatalogProducts(gid) ==
  CASE gid = 1 -> << Product("p11", Str_Charizard, <<"4","/","1","0","2">>, Str_HoloRare),
                     Product("p12", Str_Pikachu, <<"5","8","/","1","0","2">>, Str_Common) >>
    [] gid = 2 -> << Product("p21", Str_Pikachu, <<"8","7","/","1","3","0">>, Str_Common) >>
    [] gid = 3 -> << Product("p31", Str_PikachuEx, <<"0","2","5","/","2","1","7">>, Str_HoloRare) >>
    [] gid = 4 -> << Product("p41", Str_Scyther, NoneStr, Str_Common) >>
    [] gid = 5 -> << Product("p51", Str_Mew, <<"S","M","0","8">>, Str_Common),
                     Product("p52", Str_Pikachu, <<"0","0","1">>, Str_Common) >>
    [] gid = 6 -> << Product("p61", Str_Pikachu, <<"1">>, Str_HoloRare) >>
    [] gid = 7 -> << Product("p71", Str_Pikachu, <<"0","8","7","/","1","0","2">>, Str_Common) >>
    [] OTHER -> << >>

Card(name, number, url) == [name |-> name, number |-> number, url |-> url]

CardUrl == <<"/","c","/","1">>

\* The (card_info, set_name) pairs a scraped list may hold.
TaskPool ==
  { [card_info |-> Card(Str_Charizard, <<"0","0","4">>, CardUrl), set_name |-> Str_BaseSet],
    [card_info |-> Card(Str_Pikachu,   <<"8","7">>,     <<>>),    set_name |-> Str_BaseSet],
    [card_info |-> Card(Str_PikachuEx, <<"2","5">>,     CardUrl), set_name |-> Str_AccendedHeroes],
    [card_info |-> Card(Str_Scyther,   <<"1","0">>,     CardUrl), set_name |-> Str_Jungle],
    [card_info |-> Card(Str_Pikachu,   <<"1">>,         CardUrl), set_name |-> Str_BlackStarPromos],
    [card_info |-> Card(Str_Mew,       <<"8">>,         CardUrl), set_name |-> Str_BlackStarPromos],
    [card_info |-> Card(Str_Pikachu,   <<"1">>,         <<>>),    set_name |-> Str_Unknown] }

\* ------------------------------------------------------------------------
\* State
\* ------------------------------------------------------------------------

\* Cards of one request.
NumCards == 2

\* Threads of the executor that run card resolutions.
NumWorkers == 2

Workers == 1..NumWorkers
Tasks == 1..NumCards

VARIABLES
  card_tasks,            \* scrape_list: card_tasks, the (card_info, set_name) list
  work_queue,            \* executor: submitted tasks no worker has taken yet
  products_cache,        \* scrape_list: products_cache = {} (groupId -> products)
  products_index_cache,  \* module global (groupId -> index)
  products_cache_lock,   \* module global Lock: the set of threads holding it
  worker,                \* each worker thread's locals and position
  futures,               \* each task's future
  results,               \* scrape_list: results
  response,              \* scrape_list: the JSON body returned, None before
  history,               \* observation only: calls made so far
  frame,                 \* the call frame of a pure function under check
  driver_pool            \* app.py: driver_pool, the WebDriverPool object

vars ==
  << card_tasks, work_queue, products_cache, products_index_cache,
     products_cache_lock, worker, futures, results, response,
     history, frame, driver_pool >>

batchVars ==
  << card_tasks, work_queue, products_cache, products_index_cache,
     products_cache_lock, worker, futures, results, response,
     history >>

\* dict[key] = value
DictPut(dict, key, value) ==
  [k \in DOMAIN dict \cup {key} |-> IF k = key THEN value ELSE dict[k]]

IdleLocals ==
  [ pc |-> "idle", task |-> 0, set_name |-> <<>>, group_id |-> NoneGid,
    phase |-> "none", cands |-> <<>> ]

NoFrame == [fn |-> "none"]

\* The WebDriver pool is left out of the picture.
NoPool == [state |-> "none"]

\* Nothing has been called yet in the request-th request served by the process.
NoCalls(request) ==
  [ get_products_calls |-> [g \in GroupIds |-> 0],
    build_calls        |-> [g \in GroupIds |-> 0],
    ensured            |-> [t \in Tasks |-> <<>>],
    raised             |-> [t \in Tasks |-> FALSE],
    request            |-> request ]

Init ==
  /\ card_tasks \in [Tasks -> TaskPool]
  /\ work_queue = [t \in Tasks |-> t]
  /\ products_cache = <<>>
  /\ products_index_cache = <<>>
  /\ products_cache_lock = {}
  /\ worker = [w \in Workers |-> IdleLocals]
  /\ futures = [t \in Tasks |-> [state |-> "pending", result |-> None, raised |-> FALSE]]
  /\ results = <<>>
  /\ response = None
  /\ history = NoCalls(1)
  /\ frame = NoFrame
  /\ driver_pool = NoPool

\* ------------------------------------------------------------------------
\* get_card_details (card_matcher.py): the decisions of the orchestrator
\* ------------------------------------------------------------------------

\* The test for "promo" in the label left out.
PromoScanNeeded_AnyUnresolved(group_id, set_name) == ~Truthy(group_id)

\* if not group_id and "promo" in set_name.lower():
PromoScanNeeded(group_id, set_name) ==
  ~Truthy(group_id) /\ Contains(Lower(set_name), Str_Promo)

\* The filter on the group name left out: every group is scanned.
PromoGroups_Unfiltered(groups) == groups

\* promo_groups = [(n, gid) for n, gid in all_groups.items() if "promo" in n.lower()]
PromoGroups(groups) ==
  SelectSeq(groups, LAMBDA g : Contains(Lower(g.name), Str_Promo))

\* matched_name = next((n for n, gid in all_groups.items() if gid == group_id), None)
MatchedName(groups, group_id) ==
  IF \E i \in 1..Len(groups) : groups[i].gid = group_id
    THEN groups[CHOOSE i \in 1..Len(groups) :
                  /\ groups[i].gid = group_id
                  /\ \A j \in 1..(i - 1) : groups[j].gid # group_id].name
    ELSE NoneStr

\* "".join(w[0].lower() for w in words if w)
RECURSIVE LowerInitials(_)
LowerInitials(words) ==
  IF words = <<>> THEN <<>>
  ELSE (IF words[1] # <<>> THEN <<LowerChar(words[1][1])>> ELSE <<>>)
       \o LowerInitials(Tail(words))

\* The list "variants" of the related-group fallback (lines 189-196).
SearchVariants(set_name) ==
  << Lower(set_name) >>
  \o (IF Contains(set_name, <<"&">>)
        THEN << Lower(NoAmpersand(set_name)), Lower(AndForm(set_name)) >>
             \o (IF LowerInitials(AmpersandWords(set_name)) # <<>>
                   THEN << LowerInitials(AmpersandWords(set_name)) >> ELSE <<>>)
        ELSE <<>>)

\* The test "if gid == group_id: continue" left out.
RelatedGroups_IncludingResolved(groups, group_id, set_name) ==
  LET variants == SearchVariants(set_name)
  IN SelectSeq(groups, LAMBDA g :
       \E k \in 1..Len(variants) : Contains(Lower(g.name), variants[k]))

\* The groups the fallback loop ensures and tries, in iteration order:
\* gid != group_id and any(v in gl for v in variants).
RelatedGroups(groups, group_id, set_name) ==
  LET variants == SearchVariants(set_name)
  IN SelectSeq(groups, LAMBDA g :
       /\ g.gid # group_id
       /\ \E k \in 1..Len(variants) : Contains(Lower(g.name), variants[k]))

\* The scraped label is used whatever group matched.
NameOr_AlwaysLabel(matched_name, set_name) == set_name

\* matched_name or set_name
NameOr(matched_name, set_name) ==
  IF matched_name = NoneStr \/ matched_name = <<>> THEN set_name ELSE matched_name

\* The set label handed to _extract_result (set_name was rebound at line 157).
ResultSetName(task, set_name) == set_name

\* The handler re-raises: the exception reaches the future.
ExceptHandler_Reraise == [result |-> None, raised |-> TRUE]

\* except Exception as exc: print(...); return None
ExceptHandler == [result |-> None, raised |-> FALSE]

\* return value
Returned(value) == [result |-> value, raised |-> FALSE]

\* No mutual exclusion: the block is entered whoever holds the lock.
LockFree_NoMutex == TRUE

\* products_cache_lock can be acquired
LockFree == products_cache_lock = {}

\* ------------------------------------------------------------------------
\* Worker threads: one get_card_details call per task
\* ------------------------------------------------------------------------

\* The call of task t ends on worker w with the given outcome, and the loop
\* "for future in as_completed(...)" of scrape_list handles the future (the
\* futures are handled in the order they complete, so this is done with the
\* completion): card_details = future.result(); if card_details:
\* results.append(card_details); a raised exception is printed and dropped.
Return(w, t, outcome) ==
  /\ futures' = [futures EXCEPT ![t] =
                   [state |-> "done", result |-> outcome.result, raised |-> outcome.raised]]
  /\ results' = IF ~outcome.raised /\ outcome.result # None
                  THEN Append(results, outcome.result) ELSE results
  /\ worker' = [worker EXCEPT ![w] = IdleLocals]

\* Continue with the candidate groups cands (the first one is tried next).
Scan(w, t, set_name, group_id, phase, cands) ==
  /\ worker' = [worker EXCEPT ![w] =
                  [ pc |-> "lock", task |-> t, set_name |-> set_name,
                    group_id |-> group_id, phase |-> phase, cands |-> cands ]]
  /\ futures' = [futures EXCEPT ![t].state = "running"]
  /\ UNCHANGED results

\* An idle thread of the executor takes the next task (idle threads are
\* interchangeable: the lowest-numbered one stands for them); lines 157-175
\* up to the first _ensure_products.
Start(w) ==
  /\ worker[w].pc = "idle"
  /\ \A v \in Workers : worker[v].pc = "idle" => w <= v
  /\ work_queue # <<>>
  /\ LET t == Head(work_queue)
         set_name == fix_set_name(card_tasks[t].set_name)
         group_id == find_group_id(set_name, all_groups)
         promo == IF PromoScanNeeded(group_id, set_name)
                    THEN PromoGroups(all_groups) ELSE <<>>
     IN /\ work_queue' = Tail(work_queue)
        /\ IF promo # <<>>
             THEN Scan(w, t, set_name, group_id, "promo", promo)
             ELSE IF ~Truthy(group_id)
               THEN Return(w, t, Returned(None))
               ELSE Scan(w, t, set_name, group_id, "primary",
                         << [name |-> NoneStr, gid |-> group_id] >>)
  /\ UNCHANGED << card_tasks, products_cache, products_index_cache,
                  products_cache_lock, response, history, frame, driver_pool >>

\* _ensure_products: "with products_cache_lock:" and the test
\* "if group_id not in products_cache:". On a hit the block ends at once and
\* the lock is free again; on a miss the thread holds the lock while it fetches.
LockAndCheck(w) ==
  /\ worker[w].pc = "lock"
  /\ LockFree
  /\ IF worker[w].cands[1].gid \in DOMAIN products_cache
       THEN /\ worker' = [worker EXCEPT ![w].pc = "index"]
            /\ UNCHANGED products_cache_lock
       ELSE /\ worker' = [worker EXCEPT ![w].pc = "fetch"]
            /\ products_cache_lock' = products_cache_lock \cup {w}
  /\ history' = [history EXCEPT !.ensured[worker[w].task] =
                   Append(@, worker[w].cands[1].gid)]
  /\ UNCHANGED << card_tasks, work_queue, products_cache,
                  products_index_cache, futures, results, response, frame, driver_pool >>

\* products_cache[group_id] = tcgcsv_service.get_products(group_id): the
\* products of the group, or [] when the fetch fails; then the with block ends.
FetchProducts(w) ==
  /\ worker[w].pc = "fetch"
  /\ LET gid == worker[w].cands[1].gid
     IN /\ \E fetched \in {CatalogProducts(gid), <<>>} :
             products_cache' = DictPut(products_cache, gid, fetched)
        /\ history' = [history EXCEPT !.get_products_calls[gid] = @ + 1]
  /\ products_cache_lock' = products_cache_lock \ {w}
  /\ worker' = [worker EXCEPT ![w].pc = "index"]
  /\ UNCHANGED << card_tasks, work_queue, products_index_cache,
                  futures, results, response, frame, driver_pool >>

\* idx = products_index_cache.get(gid, {}); product = _match_card_to_product(...)
\* and what follows it in the promo loop, after the primary match, and in the
\* related-group loop. index_cache is products_index_cache as the thread reads it.
Match(w, index_cache) ==
  LET me == worker[w]
      t == me.task
      card_info == card_tasks[t].card_info
      cur == me.cands[1]
      idx == IF cur.gid \in DOMAIN index_cache THEN index_cache[cur.gid] ELSE <<>>
      product == match_card_to_product(card_info, idx)
      rest == Tail(me.cands)
      related == RelatedGroups(all_groups, me.group_id, me.set_name)
      set_label == ResultSetName(card_tasks[t], me.set_name)
  IN CASE me.phase = "promo" ->
            IF product # None
              THEN Return(w, t, Returned(
                     extract_result(product, cur.name, set_label, card_info)))
              ELSE IF rest # <<>>
                THEN Scan(w, t, me.set_name, me.group_id, "promo", rest)
                ELSE Return(w, t, Returned(None))
       [] me.phase = "primary" ->
            IF product # None
              THEN Return(w, t, Returned(
                     extract_result(product,
                                    NameOr(MatchedName(all_groups, me.group_id), me.set_name),
                                    set_label, card_info)))
              ELSE IF related # <<>>
                THEN Scan(w, t, me.set_name, me.group_id, "related", related)
                ELSE Return(w, t, Returned(None))
       [] me.phase = "related" ->
            IF product # None
              THEN Return(w, t, Returned(
                     extract_result(product, NameOr(cur.name, me.set_name),
                                    set_label, card_info)))
              ELSE IF rest # <<>>
                THEN Scan(w, t, me.set_name, me.group_id, "related", rest)
                ELSE Return(w, t, Returned(None))

\* products = products_cache[group_id]
\* if products and group_id not in products_index_cache: (the build follows)
\* otherwise _ensure_products returns and the match is made.
CheckIndex(w) ==
  /\ worker[w].pc = "index"
  /\ LET gid == worker[w].cands[1].gid
     IN IF products_cache[gid] # <<>> /\ gid \notin DOMAIN products_index_cache
          THEN /\ worker' = [worker EXCEPT ![w].pc = "build"]
               /\ UNCHANGED << futures, results >>
          ELSE Match(w, products_index_cache)
  /\ UNCHANGED << card_tasks, work_queue, products_cache,
                  products_index_cache, products_cache_lock, response,
                  history, frame, driver_pool >>

\* products_index_cache[group_id] = build_products_index(products); then
\* _ensure_products returns and the match is made.
BuildIndex(w) ==
  /\ worker[w].pc = "build"
  /\ LET gid == worker[w].cands[1].gid
         t == worker[w].task
     IN IF BuildRaises(products_cache[gid])
          THEN /\ Return(w, t, ExceptHandler)
               /\ history' = [history EXCEPT !.build_calls[gid] = @ + 1,
                                             !.raised[t] = TRUE]
               /\ UNCHANGED products_index_cache
          ELSE /\ products_index_cache' =
                    DictPut(products_index_cache, gid,
                            build_products_index(products_cache[gid]))
               /\ history' = [history EXCEPT !.build_calls[gid] = @ + 1]
               /\ Match(w, products_index_cache')
  /\ UNCHANGED << card_tasks, work_queue, products_cache,
                  products_cache_lock, response, frame, driver_pool >>

\* ------------------------------------------------------------------------
\* scrape_list (app.py): the response
\* ------------------------------------------------------------------------

\* return jsonify({"success": True, "cards": results, "total": ..., "matched": ...})
Respond ==
  /\ response = None
  /\ \A t \in Tasks : futures[t].state = "done"
  /\ response' = [ success |-> TRUE, cards |-> results,
                   total |-> Len(card_tasks), matched |-> Len(results) ]
  /\ UNCHANGED << card_tasks, work_queue, products_cache,
                  products_index_cache, products_cache_lock, worker, futures,
                  results, history, frame, driver_pool >>

Next ==
  \/ \E w \in Workers :
       \/ Start(w)
       \/ LockAndCheck(w)
       \/ FetchProducts(w)
       \/ CheckIndex(w)
       \/ BuildIndex(w)
  \/ Respond

Spec == Init /\ [][Next]_vars

\* ------------------------------------------------------------------------
\* build_products_index and _match_card_to_product on their own
\* ------------------------------------------------------------------------

\* Longest generated card or product number.
MaxNumberLen == 2

\* Most suffix words appended to a generated name.
MaxTags == 2

\* No request is running.
NoBatch ==
  /\ card_tasks = <<>>
  /\ work_queue = <<>>
  /\ products_cache = <<>>
  /\ products_index_cache = <<>>
  /\ products_cache_lock = {}
  /\ worker = <<>>
  /\ futures = <<>>
  /\ results = <<>>
  /\ response = None
  /\ history = <<>>

\* Every string of at most n characters of the alphabet.
StringsUpTo(alphabet, n) == UNION { [1..k -> alphabet] : k \in 0..n }

\* "025/189", "25/189", "000", "SWSH001", "025"
NumberExamples ==
  { <<"0","2","5","/","1","8","9">>,
    <<"2","5","/","1","8","9">>,
    <<"0","0","0">>,
    <<"S","W","S","H","0","0","1">>,
    <<"0","2","5">> }

NumberInputs == StringsUpTo({"0", "5", "/", "S"}, MaxNumberLen) \cup NumberExamples

\* "Charizard", "Char"
BaseNames ==
  { <<"C","h","a","r","i","z","a","r","d">>,
    <<"C","h","a","r">> }

\* "VMAX", "V", "ex"
TagWords ==
  { <<"V","M","A","X">>, <<"V">>, <<"e","x">> }

\* The sequences of at most n different tag words.
TagLists(n) ==
  { ws \in UNION { [1..k -> TagWords] : k \in 0..n } :
      \A i, j \in 1..Len(ws) : i # j => ws[i] # ws[j] }

\* " ".join([base] + words)
RECURSIVE JoinWords(_, _)
JoinWords(base, words) ==
  IF words = <<>> THEN base
  ELSE JoinWords(base \o <<" ">> \o words[1], Tail(words))

\* "Charizard-EX", "Charizardex", "--"
NameExamples ==
  { <<"C","h","a","r","i","z","a","r","d","-","E","X">>,
    <<"C","h","a","r","i","z","a","r","d","e","x">>,
    <<"-","-">> }

NameInputs ==
  { JoinWords(b, ws) : b \in BaseNames, ws \in TagLists(MaxTags) } \cup NameExamples

MatchFrame(card_info, products) ==
  [ fn |-> "match", pc |-> "build", card_info |-> card_info, products |-> products,
    products_index |-> <<>>, norm_num |-> <<>>, product |-> None ]

\* The inputs: the number varies with the name fixed, or the names vary with
\* the number fixed. A scraped card has a non-empty number and name.
InitMatch ==
  /\ NoBatch
  /\ driver_pool = NoPool
  /\ \/ \E c \in NumberInputs \ {<<>>}, p \in NumberInputs :
          frame = MatchFrame(Card(Str_Pikachu, c, <<>>),
                             << Product("p1", Str_Pikachu, p, Str_Common) >>)
     \/ \E n \in NameInputs, pn \in NameInputs, cn \in NameInputs \cup {NoneStr} :
          frame = MatchFrame(Card(n, <<"1">>, <<>>),
                             << [Product("p1", pn, <<"1">>, Str_Common)
                                   EXCEPT !.cleanName = cn] >>)

\* index = build_products_index(products)
CallBuildIndex ==
  /\ frame.fn = "match"
  /\ frame.pc = "build"
  /\ frame' = [frame EXCEPT !.products_index = build_products_index(frame.products),
                            !.pc = "match"]
  /\ UNCHANGED << batchVars, driver_pool >>

\* product = _match_card_to_product(card_info, index); norm_num is its local.
CallMatch ==
  /\ frame.fn = "match"
  /\ frame.pc = "match"
  /\ frame' = [frame EXCEPT !.norm_num = CardNumberKey(frame.card_info.number),
                            !.product =
                 match_card_to_product(frame.card_info, frame.products_index),
                            !.pc = "done"]
  /\ UNCHANGED << batchVars, driver_pool >>

NextMatch == CallBuildIndex \/ CallMatch

SpecMatch == InitMatch /\ [][NextMatch]_vars

\* ------------------------------------------------------------------------
\* _find_group_id on its own
\* ------------------------------------------------------------------------

\* Most groups in a generated groups table.
MaxGroups == 3

\* The group names a generated table draws from, with their group ids:
\* "Sun & Moon", "Sun Moon", "Sun and Moon", "SM", "SM Promos", "Moon", "sun", "XY"
GroupNamePool ==
  << <<"S","u","n"," ","&"," ","M","o","o","n">>,
     <<"S","u","n"," ","M","o","o","n">>,
     <<"S","u","n"," ","a","n","d"," ","M","o","o","n">>,
     <<"S","M">>,
     <<"S","M"," ","P","r","o","m","o","s">>,
     <<"M","o","o","n">>,
     <<"s","u","n">>,
     <<"X","Y">> >>

\* The set labels resolved:
\* "Sun & Moon", "sun & moon", "Sun &Moon", "SM", "Moon", "S & M", "X & Y", "Unknown"
LabelInputs ==
  { <<"S","u","n"," ","&"," ","M","o","o","n">>,
    <<"s","u","n"," ","&"," ","m","o","o","n">>,
    <<"S","u","n"," ","&","M","o","o","n">>,
    <<"S","M">>,
    <<"M","o","o","n">>,
    <<"S"," ","&"," ","M">>,
    <<"X"," ","&"," ","Y">>,
    <<"U","n","k","n","o","w","n">> }

\* The tables: up to MaxGroups groups of the pool in any order, names
\* pairwise different, each with the id the catalog gives it (a positive
\* number). get_groups() returning no group ends the request before any card
\* is resolved.
GroupTables ==
  { [i \in 1..Len(order) |-> [name |-> GroupNamePool[order[i]], gid |-> 100 + order[i]]] :
      order \in { o \in UNION { [1..k -> 1..Len(GroupNamePool)] : k \in 1..MaxGroups } :
                    \A i, j \in 1..Len(o) : i # j => o[i] # o[j] } }

InitResolve ==
  /\ NoBatch
  /\ driver_pool = NoPool
  /\ \E label \in LabelInputs, table \in GroupTables :
       frame = [ fn |-> "find_group_id", pc |-> "call", set_name |-> label,
                 groups |-> table, gid |-> NoneGid ]

\* group_id = _find_group_id(set_name, all_groups)
CallFindGroupId ==
  /\ frame.fn = "find_group_id"
  /\ frame.pc = "call"
  /\ frame' = [frame EXCEPT !.gid = find_group_id(frame.set_name, frame.groups),
                            !.pc = "done"]
  /\ UNCHANGED << batchVars, driver_pool >>

NextResolve == CallFindGroupId

SpecResolve == InitResolve /\ [][NextResolve]_vars

\* ------------------------------------------------------------------------
\* Properties of the batch (Spec)
\* ------------------------------------------------------------------------

\* The label after the manual correction table, as the resolver sees it.
FixedLabel(t) == fix_set_name(card_tasks[t].set_name)

\* The index build_products_index gives for the products stored for group g.
StoredIndex(g) ==
  IF products_cache[g] = <<>> THEN <<>> ELSE build_products_index(products_cache[g])

\* The product the matcher finds for task t among the stored products of g.
MatchIn(t, g) == match_card_to_product(card_tasks[t].card_info, StoredIndex(g))

\* The smallest element of a non-empty set of positions.
First(S) == CHOOSE i \in S : \A j \in S : i <= j

\* C1: under any interleaving of card resolutions that need the same group,
\* build_products_index runs at most once for that group, and every index
\* stored for the group is the one index of its products.
C1_IndexBuiltAtMostOnce ==
  \A g \in GroupIds :
    /\ history.build_calls[g] <= 1
    /\ g \in DOMAIN products_index_cache =>
         products_index_cache[g] = StoredIndex(g)

\* C2 (state part): get_products has been called at most once per group, a
\* group has an entry exactly when it was called, at most one thread is inside
\* the locked block, and a thread that fetches holds the lock and found no entry.
C2_CheckFetchStoreUnderLock ==
  /\ \A g \in GroupIds :
       /\ history.get_products_calls[g] <= 1
       /\ g \in DOMAIN products_cache <=> history.get_products_calls[g] = 1
  /\ Cardinality(products_cache_lock) <= 1
  /\ \A w \in Workers :
       worker[w].pc = "fetch" =>
         /\ products_cache_lock = {w}
         /\ worker[w].cands[1].gid \notin DOMAIN products_cache

\* C2 (step part): an entry once stored, an empty list included, stays as it is.
C2_EntryNeverOverwritten ==
  \A g \in DOMAIN products_cache :
    /\ g \in DOMAIN products_cache'
    /\ products_cache'[g] = products_cache[g]

\* C2: get_products(groupId) is called at most once per groupId under any
\* interleaving of the workers of one request: check, fetch and store are one
\* step under products_cache_lock, and a stored entry (an empty list from a
\* failed fetch included) is never fetched again or overwritten.
C2_FetchedOncePerGroup ==
  [](C2_CheckFetchStoreUnderLock) /\ [][C2_EntryNeverOverwritten]_vars

\* Two resolutions asked for one group whose fetch failed (the entry is []).
C2_Witness ==
  \E g \in DOMAIN products_cache :
    /\ products_cache[g] = <<>>
    /\ Cardinality({t \in Tasks : g \in RangeOf(history.ensured[t])}) >= 2

PromoTable ==
  SelectSeq(all_groups, LAMBDA g : Contains(Lower(g.name), Str_Promo))

\* Task t is in the promo case: no group for the corrected label, which
\* contains "promo" when lower-cased.
PromoCase(t) ==
  /\ ~Truthy(find_group_id(FixedLabel(t), all_groups))
  /\ Contains(Lower(FixedLabel(t)), Str_Promo)

\* C8: in the promo case the orchestrator ensures and tries the promo groups
\* in table order and stops at the first that matches: the result is that
\* group's match, annotated with its name, and no later group is ensured; if
\* none matches, every promo group was tried and the result is None.
C8_PromoScanInTableOrder ==
  \A t \in Tasks :
    (futures[t].state = "done" /\ PromoCase(t)) =>
      LET tried == history.ensured[t]
          n == Len(tried)
          r == futures[t].result
      IN /\ n <= Len(PromoTable)
         /\ \A k \in 1..n : tried[k] = PromoTable[k].gid
         /\ \A k \in 1..(n - 1) : MatchIn(t, tried[k]) = None
         /\ IF r # None
              THEN /\ n >= 1
                   /\ MatchIn(t, tried[n]) # None
                   /\ r.name = MatchIn(t, tried[n]).name
                   /\ r.image_url = MatchIn(t, tried[n]).imageUrl
                   /\ r.group_name = PromoTable[n].name
              ELSE \/ history.raised[t]
                   \/ /\ n = Len(PromoTable)
                      /\ \A k \in 1..n : MatchIn(t, tried[k]) = None

\* A promo-case card matched in the first promo group while a later promo
\* group has not been fetched by anyone.
C8_Witness ==
  \E t \in Tasks :
    /\ futures[t].state = "done"
    /\ PromoCase(t)
    /\ futures[t].result # None
    /\ Len(history.ensured[t]) = 1
    /\ Len(PromoTable) >= 2
    /\ PromoTable[2].gid \notin DOMAIN products_cache

\* C9: every successful result carries, as set_name, the set label the caller
\* passed in for the card, labels that the correction table rewrites included.
C9_ResultCarriesOriginalLabel ==
  \A t \in Tasks :
    (futures[t].state = "done" /\ futures[t].result # None) =>
      futures[t].result.set_name = card_tasks[t].set_name

\* No rule of the resolver gives a group for the label: no exact name, no
\* substring in either direction, and (for a label with '&') no variant that
\* is a name, or is in, contains, or starts a lower-cased name.
NoRuleHits(label, groups) ==
  LET low == Lower(label)
      names == {groups[i].name : i \in 1..Len(groups)}
      variantHits(v) ==
        \/ v \in names
        \/ \E nm \in names :
             \/ Contains(Lower(nm), Lower(v))
             \/ Contains(Lower(v), Lower(nm))
             \/ StartsWith(Lower(nm), Lower(v))
  IN /\ label \notin names
     /\ \A nm \in names : ~Contains(Lower(nm), low) /\ ~Contains(low, Lower(nm))
     /\ Contains(label, <<"&">>) =>
          /\ ~variantHits(NoAmpersand(label))
          /\ ~variantHits(AndForm(label))
          /\ ~variantHits(Initials(AmpersandWords(label)))

\* Task t is a card whose label (after the correction table, the resolver's
\* first rule) hits no rule and has no "promo" in it.
Unresolvable(t) ==
  /\ NoRuleHits(FixedLabel(t), all_groups)
  /\ ~Contains(Lower(FixedLabel(t)), Str_Promo)

\* C10: a card whose set label matches no group by any resolver rule and has
\* no "promo" in it yields None without any catalog fetch, and the response
\* still returns the results of all the cards that matched.
C10_UnresolvedLabelIsNoMatch ==
  /\ \A t \in Tasks :
       (futures[t].state = "done" /\ Unresolvable(t)) =>
         /\ futures[t].result = None
         /\ ~futures[t].raised
         /\ history.ensured[t] = <<>>
  /\ response # None =>
       /\ Len(response.cards) = Cardinality({t \in Tasks : futures[t].result # None})
       /\ \A t \in Tasks :
            futures[t].result # None =>
              \E i \in 1..Len(response.cards) : response.cards[i] = futures[t].result

\* A response of a batch with one card of an unresolvable label and one
\* matched card.
C10_Witness ==
  /\ response # None
  /\ \E t1 \in Tasks, t2 \in Tasks :
       /\ Unresolvable(t1)
       /\ futures[t1].result = None
       /\ futures[t2].result # None
       /\ response.cards = << futures[t2].result >>

\* ------------------------------------------------------------------------
\* Properties of the matcher (SpecMatch)
\* ------------------------------------------------------------------------

\* The call of build_products_index and _match_card_to_product has returned.
MatchDone == frame.fn = "match" /\ frame.pc = "done"

\* The only product of the call.
TheProduct == frame.products[1]

\* The value of the product's first "Number" entry.
TheNumber == FirstNumberEntry(TheProduct.extendedData).value

\* The name fields of a product that are set and not empty.
NamesOf(product) == {product.cleanName, product.name} \ {NoneStr, <<>>}

\* C4: the matcher never returns a product on the strength of a name whose
\* suffix-tag set differs from the card's, even with identical numbers and one
\* normalized name containing the other: the returned product has a name with
\* the card's suffix-tag set (set equality) and mutual containment; card
\* {number "1", name "Charizard"} gets no product "Charizard VMAX" of Number "1".
C4_SuffixSetsMustBeEqual ==
  MatchDone =>
    /\ frame.product # None =>
         \E nm \in NamesOf(frame.product) :
           /\ extract_card_suffixes(nm) = extract_card_suffixes(frame.card_info.name)
           /\ \/ Contains(normalize_text(nm), normalize_text(frame.card_info.name))
              \/ Contains(normalize_text(frame.card_info.name), normalize_text(nm))
    /\ ( /\ frame.card_info.name = Str_Charizard
         /\ NamesOf(TheProduct) = { Str_Charizard \o <<" ", "V", "M", "A", "X">> } )
       => frame.product = None

\* Card "Charizard" #1 against the product "Charizard VMAX" with Number "1":
\* the number gives the candidate, the names contain one another, no match.
C4_Witness ==
  /\ MatchDone
  /\ frame.card_info.name = Str_Charizard
  /\ frame.card_info.number = <<"1">>
  /\ TheNumber = <<"1">>
  /\ NamesOf(TheProduct) = { Str_Charizard \o <<" ", "V", "M", "A", "X">> }
  /\ frame.product = None

\* The part of s before its first "/" (all of s when it has none).
PartBeforeSlash(s) ==
  LET at == {i \in 1..Len(s) : s[i] = "/"}
  IN IF at = {} THEN s ELSE SubSeq(s, 1, First(at) - 1)

\* key is h without its leading "0" characters, or "0" when nothing is left.
LeadingZerosStripped(h, key) ==
  \E n \in 0..Len(h) :
    /\ \A i \in 1..n : h[i] = "0"
    /\ n < Len(h) => h[n + 1] # "0"
    /\ key = IF n = Len(h) THEN <<"0">> ELSE SubSeq(h, n + 1, Len(h))

\* The normalization of the number as stated: the part before the first "/",
\* leading zeros stripped, "0" when nothing is left.
StatedNumberKey(s) ==
  CHOOSE key \in {SubSeq(s, i, j) : i \in 1..(Len(s) + 1), j \in 0..Len(s)} \cup {<<"0">>} :
    LeadingZerosStripped(PartBeforeSlash(s), key)

\* The product is among the candidates the lookup gives for the card.
IsCandidate ==
  \E i \in 1..Len(IndexGet(frame.products_index, frame.norm_num)) :
    IndexGet(frame.products_index, frame.norm_num)[i] = TheProduct

\* C5: the number is compared after taking the part before the first "/" and
\* stripping leading zeros on both the card side and the product side: the
\* product is a lookup candidate for the card exactly when that normalization
\* gives the same string for the card's number and the product's Number.
C5_CandidateIffSameNormalizedNumber ==
  (MatchDone /\ TheNumber # NoneStr) =>
    (IsCandidate <=> StatedNumberKey(frame.card_info.number) = StatedNumberKey(TheNumber))

\* The key under which the product was indexed.
IndexedKey == CHOOSE key \in DOMAIN frame.products_index : TRUE

\* The three stated examples, with the given image of "SWSH001".
NumberExamplesHold(swsh) ==
  /\ TheNumber = <<"0", "2", "5", "/", "1", "8", "9">> => IndexedKey = <<"2", "5">>
  /\ TheNumber = <<"0", "0", "0">> => IndexedKey = <<"0">>
  /\ TheNumber = <<"S", "W", "S", "H", "0", "0", "1">> => IndexedKey = swsh

\* Only leading "0" characters are stripped (no letter, no zero after another
\* character) and an all-zero number becomes "0": for the product's Number
\* from its part before the first "/", for a card number without "/" from
\* the number.
OnlyLeadingZerosStripped ==
  /\ LeadingZerosStripped(PartBeforeSlash(TheNumber), IndexedKey)
  /\ ~Contains(frame.card_info.number, <<"/">>) =>
       LeadingZerosStripped(frame.card_info.number, frame.norm_num)

ExactHits(v, groups) == {i \in 1..Len(groups) : groups[i].name = v}

\* Rule (2): the positions of the groups whose lower-cased name contains the
\* lower-cased label or is contained in it.
SubstringHits(label, groups) ==
  {i \in 1..Len(groups) :
     \/ Contains(Lower(groups[i].name), Lower(label))
     \/ Contains(Lower(label), Lower(groups[i].name))}

\* Rule (3), fuzzy part: substring in either direction, or the name starts
\* with the variant.
VariantFuzzyHits(v, groups) ==
  {i \in 1..Len(groups) :
     \/ Contains(Lower(groups[i].name), Lower(v))
     \/ Contains(Lower(v), Lower(groups[i].name))
     \/ StartsWith(Lower(groups[i].name), Lower(v))}

\* The group one variant gives: exact first, then fuzzy, first in table order.
VariantGroup(v, groups) ==
  IF ExactHits(v, groups) # {} THEN groups[First(ExactHits(v, groups))].gid
  ELSE IF VariantFuzzyHits(v, groups) # {}
    THEN groups[First(VariantFuzzyHits(v, groups))].gid
  ELSE NoneGid

\* The variants of a label in the stated order.
StatedVariants(label) ==
  << NoAmpersand(label), AndForm(label), Initials(AmpersandWords(label)) >>

\* The group the stated precedence gives for the label.
GroupByPrecedence(label, groups) ==
  IF ExactHits(label, groups) # {}
    THEN groups[First(ExactHits(label, groups))].gid
  ELSE IF SubstringHits(label, groups) # {}
    THEN groups[First(SubstringHits(label, groups))].gid
  ELSE IF ~Contains(label, <<"&">>) THEN NoneGid
  ELSE LET vs == StatedVariants(label)
           hits == {k \in 1..Len(vs) : VariantGroup(vs[k], groups) # NoneGid}
       IN IF hits = {} THEN NoneGid ELSE VariantGroup(vs[First(hits)], groups)

\* The call of _find_group_id has returned.
ResolveDone == frame.fn = "find_group_id" /\ frame.pc = "done"

\* C7: resolution follows the fixed precedence, first hit wins: (1) exact name;
\* (2) substring in either direction, first group in table order; (3) only for
\* a label with '&', the variants no-ampersand, 'and', initials, each as exact
\* and then fuzzy match; no group when no rule hits. A later rule is not
\* consulted when an earlier one gives a group.
C7_ResolutionPrecedence ==
  ResolveDone => frame.gid = GroupByPrecedence(frame.set_name, frame.groups)

\* A label with '&' resolved by its initials, the third variant, while a
\* substring rule alone would not have given a group; and in the same table a
\* group that only a later position of the table holds.
C7_Witness ==
  /\ ResolveDone
  /\ ExactHits(frame.set_name, frame.groups) = {}
  /\ SubstringHits(frame.set_name, frame.groups) = {}
  /\ Contains(frame.set_name, <<"&">>)
  /\ VariantGroup(StatedVariants(frame.set_name)[1], frame.groups) = NoneGid
  /\ VariantGroup(StatedVariants(frame.set_name)[2], frame.groups) = NoneGid
  /\ frame.gid # NoneGid
  /\ Len(frame.groups) >= 2

\* ------------------------------------------------------------------------
\* Fan-out of one request (Spec)
\* ------------------------------------------------------------------------

\* The identity of the card of task t: (normalized number, normalized name).
CardKey(t) ==
  << CardNumberKey(card_tasks[t].card_info.number),
     normalize_text(card_tasks[t].card_info.name) >>

\* The tasks for which get_card_details has been invoked.
Invoked == {t \in Tasks : futures[t].state # "pending"}

\* C11: before fan-out the observations that share one (normalized number,
\* normalized name) key are merged into one entry, and the orchestrator is
\* invoked once per entry, not once per observation: no two invocations are
\* for the same key.
C11_OneInvocationPerCardKey ==
  \A t1 \in Invoked, t2 \in Invoked : CardKey(t1) = CardKey(t2) => t1 = t2

\* ------------------------------------------------------------------------
\* normalize_text on its own
\* ------------------------------------------------------------------------

\* Longest generated text.
MaxTextLen == 3

\* The characters of a generated text: a letter of each case, a digit, two
\* kinds of whitespace, punctuation, an accented capital and a combining mark.
TextAlphabet == {"A", "b", "7", " ", "\t", "-", "É", CombiningAcute}

\* "  Pokémon -  EX ", "É b\t\t-7 "
TextExamples ==
  { <<" "," ","P","o","k","é","m","o","n"," ","-"," "," ","E","X"," ">>,
    <<"É"," ","b","\t","\t","-","7"," ">> }

TextInputs == StringsUpTo(TextAlphabet, MaxTextLen) \cup TextExamples

InitNormalize ==
  /\ NoBatch
  /\ driver_pool = NoPool
  /\ \E text \in TextInputs :
       frame = [ fn |-> "normalize_text", pc |-> "call", text |-> text,
                 once |-> <<>>, twice |-> <<>> ]

\* once = normalize_text(text)
CallNormalize ==
  /\ frame.fn = "normalize_text"
  /\ frame.pc = "call"
  /\ frame' = [frame EXCEPT !.once = normalize_text(frame.text), !.pc = "again"]
  /\ UNCHANGED << batchVars, driver_pool >>

\* twice = normalize_text(once)
CallNormalizeAgain ==
  /\ frame.fn = "normalize_text"
  /\ frame.pc = "again"
  /\ frame' = [frame EXCEPT !.twice = normalize_text(frame.once), !.pc = "done"]
  /\ UNCHANGED << batchVars, driver_pool >>

NextNormalize == CallNormalize \/ CallNormalizeAgain

SpecNormalize == InitNormalize /\ [][NextNormalize]_vars

\* s has only the characters a-z, 0-9 and single spaces, none at either end.
IsNormalForm(s) ==
  /\ \A i \in 1..Len(s) : s[i] \in LowerLetters \cup Digits \cup {" "}
  /\ \A i \in 1..(Len(s) - 1) : ~(s[i] = " " /\ s[i + 1] = " ")
  /\ s # <<>> => (s[1] # " " /\ s[Len(s)] # " ")

\* C12: normalize_text is idempotent, and its output has only the characters
\* a-z, 0-9 and single spaces, with no leading or trailing space.
C12_NormalizeIdempotent ==
  frame.fn = "normalize_text" =>
    /\ frame.pc \in {"again", "done"} => IsNormalForm(frame.once)
    /\ frame.pc = "done" => frame.twice = frame.once

\* A text with an accent, punctuation and runs of whitespace, normalized twice.
C12_Witness ==
  /\ frame.fn = "normalize_text"
  /\ frame.pc = "done"
  /\ frame.text = <<"É"," ","b","\t","\t","-","7"," ">>
  /\ frame.once = <<"e"," ","b"," ","7">>

\* ------------------------------------------------------------------------
\* The batch with a catalog client whose get_products may raise, under fair
\* scheduling of the threads (SpecLive)
\* ------------------------------------------------------------------------

\* The lock is still held after the exception left the with block.
LockAfterRaise_Held(w) == products_cache_lock

\* "with products_cache_lock:" left by an exception: the lock is released.
LockAfterRaise(w) == products_cache_lock \ {w}

\* tcgcsv_service.get_products(group_id) raises inside the with block of
\* _ensure_products: nothing is stored, the lock is released, and the
\* exception reaches the handler of get_card_details.
FetchRaises(w) ==
  /\ worker[w].pc = "fetch"
  /\ products_cache_lock' = LockAfterRaise(w)
  /\ Return(w, worker[w].task, ExceptHandler)
  /\ history' = [history EXCEPT !.get_products_calls[worker[w].cands[1].gid] = @ + 1,
                                !.raised[worker[w].task] = TRUE]
  /\ UNCHANGED << card_tasks, work_queue, products_cache,
                  products_index_cache, response, frame, driver_pool >>

\* One step of thread w.
WorkerStep(w) ==
  \/ Start(w)
  \/ LockAndCheck(w)
  \/ FetchProducts(w)
  \/ FetchRaises(w)
  \/ CheckIndex(w)
  \/ BuildIndex(w)

NextLive ==
  \/ \E w \in Workers : WorkerStep(w)
  \/ Respond

\* Some thread can take a step: a task is queued or a call is in progress (a
\* thread that waits for the lock waits for one that is fetching).
WorkLeft == work_queue # <<>> \/ \E w \in Workers : worker[w].pc # "idle"

\* The scheduler keeps running the threads of the executor, and the request
\* thread once all futures are done: weak fairness of the worker steps, with
\* their enabling condition written out as WorkLeft, and of Respond.
Fairness ==
  /\ []<>(~WorkLeft) \/ []<><<\E w \in Workers : WorkerStep(w)>>_vars
  /\ WF_vars(Respond)

SpecLive == Init /\ [][NextLive]_vars /\ Fairness

\* When the batch has returned: every task is done, nothing is queued or
\* running, the lock is free, and the result list has one entry per card whose
\* resolution succeeded.
C13_ReturnedBatchIsComplete ==
  response # None =>
    /\ \A t \in Tasks : futures[t].state = "done"
    /\ work_queue = <<>>
    /\ \A w \in Workers : worker[w].pc = "idle"
    /\ products_cache_lock = {}
    /\ Len(response.cards) = Cardinality({t \in Tasks : futures[t].result # None})
    /\ response.matched = Len(response.cards)
    /\ response.matched <= response.total

\* C13: provided every catalog fetch returns (with products, empty, or by
\* raising), the batch terminates: every task runs to completion, no thread
\* waits forever for products_cache_lock (it is released on every path, also
\* when the fetch raises), and the returned result list has one entry per
\* card whose resolution succeeded, so matched <= total.
C13_BatchTerminates ==
  /\ <>(response # None)
  /\ \A w \in Workers : (worker[w].pc = "lock") ~> (worker[w].pc # "lock")
  /\ [](C13_ReturnedBatchIsComplete)

\* A returned batch in which one fetch raised (nothing was stored for its
\* group) and another card matched.
C13_Witness ==
  /\ response # None
  /\ \E t1 \in Tasks, t2 \in Tasks :
       /\ history.raised[t1]
       /\ history.ensured[t1] # <<>>
       /\ history.ensured[t1][Len(history.ensured[t1])] \notin DOMAIN products_cache
       /\ futures[t2].result # None

\* ------------------------------------------------------------------------
\* The related-group fallback (Spec)
\* ------------------------------------------------------------------------

\* The group the corrected label of task t resolves to.
ResolvedGroup(t) == find_group_id(FixedLabel(t), all_groups)

\* The other groups whose lower-cased name contains a search variant of the
\* label of task t, in table order.
RelatedTable(t) ==
  SelectSeq(all_groups, LAMBDA g :
    /\ g.gid # ResolvedGroup(t)
    /\ \E k \in 1..Len(SearchVariants(FixedLabel(t))) :
         Contains(Lower(g.name), SearchVariants(FixedLabel(t))[k]))

\* C14: when a group was resolved but the match in it failed, the
\* orchestrator ensures and tries the other groups whose lower-cased name
\* contains a search variant of the label, in table order, and stops at the
\* first that matches, recording its name; the resolved group is not tried
\* again, no group after the first success is ensured, and if no related
\* group matches the result is None.
C14_RelatedScanInTableOrder ==
  \A t \in Tasks :
    (futures[t].state = "done" /\ Truthy(ResolvedGroup(t)) /\ ~history.raised[t]) =>
      LET g == ResolvedGroup(t)
          tried == history.ensured[t]
          n == Len(tried)
          rel == RelatedTable(t)
          r == futures[t].result
      IN /\ n >= 1
         /\ tried[1] = g
         /\ IF MatchIn(t, g) # None
              THEN n = 1 /\ r # None
              ELSE /\ n - 1 <= Len(rel)
                   /\ \A k \in 1..(n - 1) : tried[k + 1] = rel[k].gid /\ tried[k + 1] # g
                   /\ \A k \in 2..(n - 1) : MatchIn(t, tried[k]) = None
                   /\ IF r # None
                        THEN /\ n >= 2
                             /\ MatchIn(t, tried[n]) # None
                             /\ r.image_url = MatchIn(t, tried[n]).imageUrl
                             /\ r.group_name = rel[n - 1].name
                        ELSE /\ n - 1 = Len(rel)
                             /\ \A k \in 1..n : MatchIn(t, tried[k]) = None

\* The match in the resolved group failed, the first related group matched,
\* and a later related group has not been fetched by anyone.
C14_Witness ==
  \E t \in Tasks :
    /\ futures[t].state = "done"
    /\ Truthy(ResolvedGroup(t))
    /\ futures[t].result # None
    /\ Len(history.ensured[t]) = 2
    /\ MatchIn(t, ResolvedGroup(t)) = None
    /\ products_cache[ResolvedGroup(t)] # <<>>
    /\ Len(RelatedTable(t)) >= 2
    /\ RelatedTable(t)[2].gid \notin DOMAIN products_cache

\* ------------------------------------------------------------------------
\* The group named in a result (Spec)
\* ------------------------------------------------------------------------

\* The group in which the resolution of task t made its last match attempt.
LastTried(t) == history.ensured[t][Len(history.ensured[t])]

\* The names the groups table gives for group id g.
NamesOfGroup(g) ==
  { all_groups[i].name : i \in { j \in 1..Len(all_groups) : all_groups[j].gid = g } }

\* The result r is built from a product of the list stored for group g.
FromProductsOf(r, g) ==
  \E i \in 1..Len(products_cache[g]) :
    /\ products_cache[g][i].name = r.name
    /\ products_cache[g][i].imageUrl = r.image_url

\* C15: for every successful result, group_name is the name of the group of
\* the table in whose product list the returned product was found: the
\* resolved group after a primary match, the related group after the
\* fallback, the promo group after the promo scan; it is never the name of a
\* group in which the product was not found.
C15_GroupNameIsMatchedGroup ==
  \A t \in Tasks :
    (futures[t].state = "done" /\ futures[t].result # None) =>
      LET r == futures[t].result
          g == LastTried(t)
      IN /\ r.group_name \in NamesOfGroup(g)
         /\ FromProductsOf(r, g)
         /\ ( Truthy(ResolvedGroup(t)) /\ Len(history.ensured[t]) = 1 )
              => r.group_name \in NamesOfGroup(ResolvedGroup(t))
         /\ \A i \in 1..Len(all_groups) :
              all_groups[i].name = r.group_name =>
                /\ all_groups[i].gid \in DOMAIN products_cache
                /\ FromProductsOf(r, all_groups[i].gid)

\* A card matched in a related group: its group_name is that group's name and
\* not the resolved group's.
C15_Witness ==
  \E t \in Tasks :
    /\ futures[t].state = "done"
    /\ futures[t].result # None
    /\ Truthy(ResolvedGroup(t))
    /\ LastTried(t) # ResolvedGroup(t)
    /\ futures[t].result.group_name \in NamesOfGroup(LastTried(t))

\* ------------------------------------------------------------------------
\* build_products_index and _match_card_to_product on lists of products
\* ------------------------------------------------------------------------

\* Most products in a generated list.
MaxProducts == 2

\* "Pikachu V"
Str_PikachuV == Str_Pikachu \o <<" ", "V">>

\* "Pikachu VMAX"
Str_PikachuVMAX == Str_Pikachu \o <<" ", "V", "M", "A", "X">>

\* The products of a generated list: plain; cleanName with another suffix
\* than name; another suffix in both names; no "Number" entry; two "Number"
\* entries; no cleanName.
ProductPool ==
  { Product("a", Str_Pikachu, <<"1">>, Str_Common),
    [Product("b", Str_Pikachu, <<"0","0","1","/","1","0">>, Str_Common)
       EXCEPT !.cleanName = Str_PikachuV],
    Product("c", Str_PikachuVMAX, <<"1">>, Str_HoloRare),
    [Product("d", Str_Pikachu, <<"1">>, Str_Common)
       EXCEPT !.extendedData = << [name |-> "Rarity", value |-> Str_Common] >>],
    [Product("e", Str_Pikachu, <<"2">>, Str_Common)
       EXCEPT !.extendedData = << [name |-> "Number", value |-> <<"2">>],
                                  [name |-> "Rarity", value |-> Str_Common],
                                  [name |-> "Number", value |-> <<"1">>] >>],
    [Product("f", Str_Pikachu, <<"0","1">>, Str_Common)
       EXCEPT !.cleanName = NoneStr] }

\* The cards looked up in a generated list.
CardPool ==
  { Card(Str_Pikachu, <<"1">>, <<>>),
    Card(Str_PikachuV, <<"0","1">>, <<>>),
    Card(Str_PikachuVMAX, <<"1">>, <<>>),
    Card(Str_Pikachu, <<"2">>, <<>>) }

InitIndex ==
  /\ NoBatch
  /\ driver_pool = NoPool
  /\ \E card \in CardPool, k \in 0..MaxProducts :
       \E products \in [1..k -> ProductPool] :
         frame = MatchFrame(card, products)

SpecIndex == InitIndex /\ [][NextMatch]_vars

\* The product has a "Number" entry.
HasNumber(p) == FirstNumberEntry(p.extendedData) # None

\* The key of the first "Number" entry of the product.
KeyOf(p) == ProductNumberKey(FirstNumberEntry(p.extendedData).value)

\* Some non-empty name field of the product has the card's suffix-tag set and
\* a normalized form that contains, or is contained in, the card's.
NameFieldAccepted(card, p) ==
  \E nm \in NamesOf(p) :
    /\ extract_card_suffixes(nm) = extract_card_suffixes(card.name)
    /\ \/ Contains(normalize_text(nm), normalize_text(card.name))
       \/ Contains(normalize_text(card.name), normalize_text(nm))

\* The positions of the list whose product is indexed under the card's key
\* and has an accepted name field.
Acceptable(card, products) ==
  { i \in 1..Len(products) :
      /\ HasNumber(products[i])
      /\ KeyOf(products[i]) = CardNumberKey(card.number)
      /\ NameFieldAccepted(card, products[i]) }

\* C16: build_products_index keeps the input order within each key, indexes
\* each product under the key of its first "Number" entry only, and leaves
\* products without one unindexed; the matcher returns the earliest product,
\* in that order, with a non-empty name field whose suffix-tag set equals the
\* card's and whose normalized form contains or is contained in the card's.
C16_FirstAcceptedCandidateWins ==
  frame.fn = "match" =>
    /\ frame.pc \in {"match", "done"} =>
         /\ DOMAIN frame.products_index =
              { KeyOf(frame.products[i]) :
                  i \in { j \in 1..Len(frame.products) : HasNumber(frame.products[j]) } }
         /\ \A key \in DOMAIN frame.products_index :
              frame.products_index[key] =
                SelectSeq(frame.products, LAMBDA p : HasNumber(p) /\ KeyOf(p) = key)
    /\ frame.pc = "done" =>
         IF Acceptable(frame.card_info, frame.products) = {}
           THEN frame.product = None
           ELSE frame.product =
                  frame.products[First(Acceptable(frame.card_info, frame.products))]

\* Two candidates at the card's number: the first has a cleanName with
\* another suffix and is returned through its name.
C16_Witness ==
  /\ frame.fn = "match"
  /\ frame.pc = "done"
  /\ Len(frame.products) = 2
  /\ frame.card_info = Card(Str_Pikachu, <<"1">>, <<>>)
  /\ frame.products[1].cleanName = Str_PikachuV
  /\ frame.products[2].productId = "a"
  /\ frame.product = frame.products[1]

(***************************************************************************)
(* The WebDriver pool (webdriver_pool_service.py).                         *)
(*                                                                         *)
(* driver_pool is the WebDriverPool object: pool is its Queue (first in,   *)
(* first out), a driver is the number of the _create_driver call that made *)
(* it.  replacing counts the create_replacement threads that are running,  *)
(* handed and closed are the drivers given to callers and the ones quit.   *)
(* gets, started and timeouts count what get_driver did.  shutdown() is    *)
(* called by nothing while requests are served and is left out.            *)
(***************************************************************************)

\* The number of get_driver calls of one run is capped.
MaxGets == 3

\* pool_size: app.py asks for 1, the default of __init__ and get_pool is 3.
PoolSizes == {1, 3}

\* __init__, lines 23-25: an empty Queue, nothing pre-loaded yet.
NewPool(pool_size) ==
  [ state     |-> "init",
    pool_size |-> pool_size,
    loaded    |-> 0,
    pool      |-> <<>>,
    created   |-> 0,
    replacing |-> 0,
    handed    |-> {},
    closed    |-> {},
    gets      |-> 0,
    started   |-> 0,
    timeouts  |-> 0 ]

InitPool ==
  /\ NoBatch
  /\ frame = NoFrame
  /\ \E pool_size \in PoolSizes : driver_pool = NewPool(pool_size)

\* _create_driver: a new driver, or None when anything in it raised.
CreateDriverOutcomes(dp) == { dp.created + 1, NoneGid }

\* self.pool.put(driver) when the driver is not None.
PutIfCreated(pool, driver) ==
  IF driver # NoneGid THEN Append(pool, driver) ELSE pool

\* __init__, lines 29-33: one turn of the pre-load loop.
Preload ==
  /\ driver_pool.state = "init"
  /\ driver_pool.loaded < driver_pool.pool_size
  /\ \E driver \in CreateDriverOutcomes(driver_pool) :
       driver_pool' =
         [driver_pool EXCEPT
            !.loaded  = @ + 1,
            !.created = IF driver # NoneGid THEN driver ELSE @,
            !.pool    = PutIfCreated(@, driver),
            !.state   = IF driver_pool.loaded + 1 = driver_pool.pool_size
                        THEN "ready" ELSE "init"]
  /\ UNCHANGED << batchVars, frame >>

PoolCalls(dp) == dp.gets + dp.timeouts

\* get_driver, lines 66-79: a driver is taken and a replacement thread is
\* started.
GetDriver ==
  /\ driver_pool.state = "ready"
  /\ PoolCalls(driver_pool) < MaxGets
  /\ driver_pool.pool # <<>>
  /\ driver_pool' =
       [driver_pool EXCEPT
          !.pool      = Tail(@),
          !.handed    = @ \cup {Head(driver_pool.pool)},
          !.gets      = @ + 1,
          !.started   = @ + 1,
          !.replacing = @ + 1]
  /\ UNCHANGED << batchVars, frame >>

\* get_driver, lines 80-82: the queue stayed empty for the whole timeout.
GetDriverTimeout ==
  /\ driver_pool.state = "ready"
  /\ PoolCalls(driver_pool) < MaxGets
  /\ driver_pool.pool = <<>>
  /\ driver_pool' = [driver_pool EXCEPT !.timeouts = @ + 1]
  /\ UNCHANGED << batchVars, frame >>

\* create_replacement, lines 70-74, run by its thread.  put blocks while the
\* queue is full.
CreateReplacement ==
  /\ driver_pool.state = "ready"
  /\ driver_pool.replacing > 0
  /\ \E new_driver \in CreateDriverOutcomes(driver_pool) :
       /\ new_driver # NoneGid => Len(driver_pool.pool) < driver_pool.pool_size
       /\ driver_pool' =
            [driver_pool EXCEPT
               !.created   = IF new_driver # NoneGid THEN new_driver ELSE @,
               !.pool      = PutIfCreated(@, new_driver),
               !.replacing = @ - 1]
  /\ UNCHANGED << batchVars, frame >>

\* return_driver, lines 91-94: the driver is quit and nothing else.
ReturnDriver ==
  /\ driver_pool.state = "ready"
  /\ \E driver \in driver_pool.handed :
       driver_pool' =
         [driver_pool EXCEPT
            !.handed = @ \ {driver},
            !.closed = @ \cup {driver}]
  /\ UNCHANGED << batchVars, frame >>

NextPool ==
  \/ Preload
  \/ GetDriver
  \/ GetDriverTimeout
  \/ CreateReplacement
  \/ ReturnDriver

SpecPool == InitPool /\ [][NextPool]_vars

(***************************************************************************)
(* C17                                                                     *)
(***************************************************************************)

ReplacementsFinished ==
  driver_pool.state = "ready" /\ driver_pool.replacing = 0

\* C17: the pool never holds more than pool_size drivers, every successful
\* get_driver has started exactly one replacement, no driver that was handed
\* out is in the pool again, and once every replacement thread has finished
\* the pool holds pool_size drivers, so that the next get_driver finds one.
C17_PoolKeepsItsSize ==
  /\ Len(driver_pool.pool) <= driver_pool.pool_size
  /\ driver_pool.started = driver_pool.gets
  /\ RangeOf(driver_pool.pool) \cap (driver_pool.handed \cup driver_pool.closed) = {}
  /\ ReplacementsFinished => Len(driver_pool.pool) = driver_pool.pool_size

(***************************************************************************)
(* Several requests served by one process (app.py, scrape_list).           *)
(*                                                                         *)
(* Each request starts with products_cache = {} (line 344) and its own     *)
(* executor; products_index_cache is a module global of card_matcher.py    *)
(* and keeps what earlier requests stored.                                 *)
(***************************************************************************)

\* Requests served by the process in one run.
MaxRequests == 2

\* The next POST /scrape-list, after the previous response was returned.
NewRequest ==
  /\ response # None
  /\ history.request < MaxRequests
  /\ card_tasks' \in [Tasks -> TaskPool]
  /\ work_queue' = [t \in Tasks |-> t]
  /\ products_cache' = <<>>
  /\ worker' = [w \in Workers |-> IdleLocals]
  /\ futures' = [t \in Tasks |-> [state |-> "pending", result |-> None, raised |-> FALSE]]
  /\ results' = <<>>
  /\ response' = None
  /\ history' = NoCalls(history.request + 1)
  /\ UNCHANGED << products_index_cache, products_cache_lock, frame, driver_pool >>

NextRequests ==
  \/ Next
  \/ NewRequest

SpecRequests == Init /\ [][NextRequests]_vars

(***************************************************************************)
(* C18                                                                     *)
(***************************************************************************)

\* The thread has left the locked block of _ensure_products for group g and
\* goes on to read the index of g and match against it.
AboutToMatch(w, g) ==
  /\ worker[w].pc = "index"
  /\ worker[w].cands[1].gid = g

\* C18: across requests, an index held for g together with a non-empty
\* product list of the current request for g is the index of that list, and
\* no resolution matches against an index for g while the current request's
\* product list for g is empty.
C18_IndexAgreesWithRequestProducts ==
  /\ \A g \in DOMAIN products_index_cache \cap DOMAIN products_cache :
       products_cache[g] # <<>> =>
         products_index_cache[g] = build_products_index(products_cache[g])
  /\ \A w \in Workers, g \in DOMAIN products_index_cache :
       AboutToMatch(w, g) => products_cache[g] # <<>>

(***************************************************************************)
(* C19                                                                     *)
(***************************************************************************)

\* Some fallback search variant of the label is a substring of the
\* lower-cased name of group g.
VariantInName(label, g) ==
  \E k \in 1..Len(SearchVariants(label)) :
    Contains(Lower(g.name), SearchVariants(label)[k])

\* C19: when _find_group_id returns no group for a label (the ids of the
\* table all truthy), no group name contains a fallback search variant of the
\* label, so the related-group scan with no resolved group has no group to
\* try: returning no match right after the promo scan gives what the scan
\* would give.
C19_NoGroupThenNoRelatedGroup ==
  (ResolveDone /\ frame.gid = NoneGid) =>
    /\ \A i \in 1..Len(frame.groups) : ~VariantInName(frame.set_name, frame.groups[i])
    /\ RelatedGroups(frame.groups, NoneGid, frame.set_name) = <<>>

\* No group was found for a label with '&' in a table of several groups, all
\* with truthy ids: all four variants were computed and compared.
C19_Witness ==
  /\ ResolveDone
  /\ frame.gid = NoneGid
  /\ Contains(frame.set_name, <<"&">>)
  /\ Len(SearchVariants(frame.set_name)) = 4
  /\ Len(frame.groups) >= 2
  /\ \A i \in 1..Len(frame.groups) : Truthy(frame.groups[i].gid)

(***************************************************************************)
(* C20                                                                     *)
(***************************************************************************)

\* The name nm of a product and the card's name have the same suffix-tag set
\* and related normalized names: both normalize to something and one contains
\* the other, or both normalize to the same string.
SharesContent(nm, card_name) ==
  /\ extract_card_suffixes(nm) = extract_card_suffixes(card_name)
  /\ \/ normalize_text(nm) = normalize_text(card_name)
     \/ /\ normalize_text(nm) # <<>>
        /\ normalize_text(card_name) # <<>>
        /\ \/ Contains(normalize_text(nm), normalize_text(card_name))
           \/ Contains(normalize_text(card_name), normalize_text(nm))

\* C20: the matcher returns a product only when the card's name and a name
\* of the product share real content: when the card's name or the product's
\* name normalizes to the empty string, no product with an unrelated
\* normalized name is returned.
C20_MatchSharesRealContent ==
  (MatchDone /\ frame.product # None) =>
    \E nm \in NamesOf(frame.product) : SharesContent(nm, frame.card_info.name)

====
